---- MODULE Spec2Model ----
(***************************************************************************)
(* Model of rst_decode (src/devices/rst_sweden.c): the RST Sweden          *)
(* temperature sensor decoder of rtl_433.  One call of rst_decode scans    *)
(* the rows of a bitbuffer; the model follows the call stage by stage      *)
(* (pc), with the byte arithmetic of the C code done on integers 0..255.   *)
(***************************************************************************)
EXTENDS Integers, Sequences, FiniteSets, TLC

(***************************************************************************)
(* Bounds of the model.                                                    *)
(***************************************************************************)
\* most rows per bitbuffer in the multi-row inputs
MaxRows == 2
\* bytes of row storage modelled per row (the decoder reads b[0..11])
RowBytes == 12

(***************************************************************************)
(* Program constants.                                                      *)
(***************************************************************************)
RST_MAX_BYTES_PER_ROW == 10
RST_UNKNOWN == 0
RST_TEMP == 1
\* decoder.h return codes
DECODE_ABORT_LENGTH == -1
DECODE_ABORT_EARLY == -2
DECODE_FAIL_MIC == -3
DECODE_FAIL_SANITY == -4

(***************************************************************************)
(* C integer operators on non-negative integers.                           *)
(***************************************************************************)
RECURSIVE And(_, _)
And(x, y) ==
    IF x = 0 \/ y = 0 THEN 0
    ELSE (x % 2) * (y % 2) + 2 * And(x \div 2, y \div 2)

RECURSIVE Or(_, _)
Or(x, y) ==
    IF x = 0 THEN y
    ELSE IF y = 0 THEN x
    ELSE (IF x % 2 = 1 \/ y % 2 = 1 THEN 1 ELSE 0) + 2 * Or(x \div 2, y \div 2)

RECURSIVE Xor(_, _)
Xor(x, y) ==
    IF x = 0 THEN y
    ELSE IF y = 0 THEN x
    ELSE (((x % 2) + (y % 2)) % 2) + 2 * Xor(x \div 2, y \div 2)

Shl(x, k) == x * (2 ^ k)

Shr(x, k) == x \div (2 ^ k)

\* conversion to uint8_t
U8(x) == x % 256

(***************************************************************************)
(* Library helpers called by rst_decode (util.c, bitbuffer.c).             *)
(***************************************************************************)
\* parity8: parity (count of set bits mod 2) of a byte
RECURSIVE parity8(_)
parity8(byte) ==
    IF byte = 0 THEN 0 ELSE ((byte % 2) + parity8(byte \div 2)) % 2

\* xor_bytes: XOR of message[0 .. num_bytes-1]
RECURSIVE xor_bytes(_, _)
xor_bytes(message, num_bytes) ==
    IF num_bytes = 0 THEN 0
    ELSE Xor(xor_bytes(message, num_bytes - 1), message[num_bytes - 1])

\* the 8 shift steps of crc8 for one byte
RECURSIVE crc8_bits(_, _, _)
crc8_bits(remainder, polynomial, bit) ==
    IF bit = 8 THEN remainder
    ELSE IF And(remainder, 128) # 0
         THEN crc8_bits(Xor(U8(Shl(remainder, 1)), polynomial),
                        polynomial, bit + 1)
         ELSE crc8_bits(U8(Shl(remainder, 1)), polynomial, bit + 1)

\* crc8: CRC-8 of message[0 .. nBytes-1], MSB first, no reflection, no final XOR
RECURSIVE crc8(_, _, _, _)
crc8(message, nBytes, polynomial, init) ==
    IF nBytes = 0 THEN init
    ELSE crc8_bits(Xor(crc8(message, nBytes - 1, polynomial, init),
                       message[nBytes - 1]),
                   polynomial, 0)

\* reverse8: bit 0 <-> bit 7, bit 1 <-> bit 6, ...
reverse8(x) ==
    (x % 2) * 128 + (Shr(x, 1) % 2) * 64 + (Shr(x, 2) % 2) * 32
    + (Shr(x, 3) % 2) * 16 + (Shr(x, 4) % 2) * 8 + (Shr(x, 5) % 2) * 4
    + (Shr(x, 6) % 2) * 2 + (Shr(x, 7) % 2)

\* reflect_bytes: reverse8 on message[0 .. num_bytes-1], in place
reflect_bytes(message, num_bytes) ==
    [i \in DOMAIN message |->
        IF i < num_bytes THEN reverse8(message[i]) ELSE message[i]]

\* bitbuffer_invert on one row: the bits_per_row used bits are inverted
\* (bytes 0..last_col inverted, the unused bits of the last byte restored)
InvertRow(b, nbits) ==
    IF nbits = 0 THEN b
    ELSE LET last_col == (nbits - 1) \div 8
             last_bits == ((nbits - 1) % 8) + 1
         IN [col \in DOMAIN b |->
                IF col < last_col THEN 255 - b[col]
                ELSE IF col = last_col
                     THEN Xor(255 - b[col], Shr(255, last_bits))
                     ELSE b[col]]

\* bitbuffer_invert: every row of the bitbuffer
bitbuffer_invert(rows, nbits) ==
    [r \in DOMAIN rows |-> InvertRow(rows[r], nbits[r])]

(***************************************************************************)
(* The stages of rst_decode as operators.                                  *)
(***************************************************************************)
\* an assignment ret = code that keeps an earlier failure's code
SetRetKeepFirst(old, code) == IF old # 0 THEN old ELSE code

\* ret = code (lines 43, 60, 78, 91, 98, 115)
SetRet(old, code) == code

\* line 39: expect 10 unstuffed bytes, allow up to 4 missing bits
UnstuffedLen(nbits) == (nbits + 4) \div 9

\* line 41: the sensor type chosen for the one accepted length
SensorTypeUnknown(unstuffed_len) == RST_UNKNOWN

SensorTypeFor(unstuffed_len) == RST_TEMP

\* line 50: int sync = b[0] << 1 | b[1] >> 7
SyncWindow(b) == Or(Shl(b[0], 1), Shr(b[1], 7))

\* lines 51-58 with one more shift tried
RECURSIVE SyncLoopFive(_, _)
SyncLoopFive(sync, i) ==
    IF i >= 5 THEN -1
    ELSE IF sync = 13 THEN 9 - i
    ELSE SyncLoopFive(Shr(sync, 1), i + 1)

\* lines 51-58: startpos, or -1 when none of the 4 shifts gives 0x0d
RECURSIVE SyncLoop(_, _)
SyncLoop(sync, i) ==
    IF i >= 4 THEN -1
    ELSE IF sync = 13 THEN 9 - i
    ELSE SyncLoop(Shr(sync, 1), i + 1)

\* lines 72-75: the byte and the parity bit taken at bit offset `offset`
UnstuffByte(b, offset) ==
    U8(Or(Shl(b[offset \div 8], offset % 8),
          Shr(b[(offset \div 8) + 1], 8 - (offset % 8))))

UnstuffParity(b, offset) ==
    And(Shr(b[(offset \div 8) + 1], 7 - (offset % 8)), 1)

\* lines 70-82: the unstuff loop from byte i on.  st carries packet, ret and
\* unstuff_error, and records the last bit read and the last packet index
\* written (maxbit, maxidx) and whether a parity error was met (perr, at).
RECURSIVE UnstuffLoop(_, _, _, _, _)
UnstuffLoop(b, startpos, unstuffed_len, i, st) ==
    IF i >= unstuffed_len THEN st
    ELSE LET offset == startpos + i * 9
             byte == UnstuffByte(b, offset)
             parity == UnstuffParity(b, offset)
             st1 == [st EXCEPT !.packet[i] = byte,
                               !.maxbit = offset + 8,
                               !.maxidx = i]
         IN IF parity # parity8(byte)
            THEN [st1 EXCEPT !.ret = SetRet(st.ret, DECODE_FAIL_MIC),
                             !.unstuff_error = i,
                             !.perr = TRUE,
                             !.at = i]
            ELSE UnstuffLoop(b, startpos, unstuffed_len, i + 1, st1)

\* line 105
PktLen(packet) == And(Shr(packet[1], 1), 31)

\* lines 119-120 with the remap threshold off by one
ChannelAbove(packet) ==
    LET channel == And(Shr(packet[0], 5), 15)
    IN IF channel > 5 THEN channel - 1 ELSE channel

\* lines 119-120
Channel(packet) ==
    LET channel == And(Shr(packet[0], 5), 15)
    IN IF channel >= 5 THEN channel - 1 ELSE channel

\* line 121
RollingCode(packet) == And(packet[0], 15)

\* lines 122-125, in tenths of a degree
Temp(packet) ==
    LET temp == And(packet[4], 15) * 100
                + Shr(And(packet[3], 240), 4) * 10
                + And(packet[3], 15)
    IN IF And(Shr(packet[4], 7), 1) = 0 THEN 0 - temp ELSE temp

\* line 126
BatteryOk(packet) == And(Shr(packet[4], 6), 1)

\* lines 130-137: data_make; temperature_C is kept in tenths (temp * 0.1f)
DataMake(packet) ==
    [model |-> "RST-Temperature",
     id |-> RollingCode(packet),
     channel |-> Channel(packet),
     battery_ok |-> BatteryOk(packet),
     temperature_C |-> Temp(packet),
     mic |-> "CRC"]

(***************************************************************************)
(* Input rows.  A frame is given by its 7 leading payload bytes as the     *)
(* field decoder sees them (reflected); the transmitter appends the XOR    *)
(* and CRC bytes, sends each byte LSB first with an even-parity bit after  *)
(* it, inverted, behind the 9-bit sync 000001101.                          *)
(***************************************************************************)
\* the 9 payload bytes before reflection; xd and cd corrupt the XOR and the
\* CRC byte (0: correct)
Payload(r, xd, cd) ==
    LET p7 == [i \in 0..6 |-> reverse8(r[i + 1])]
        xorbyte == Xor(xor_bytes(p7, 7), xd)
        p8 == [i \in 0..7 |-> IF i < 7 THEN p7[i] ELSE xorbyte]
        crcbyte == Xor(crc8(p8, 8, 7, 0), cd)
    IN [i \in 0..8 |-> IF i < 8 THEN p8[i] ELSE crcbyte]

\* the 90 bits on the air: sync, then the inverted stuffed payload
Wire(p) ==
    [n \in 0..89 |->
        IF n < 9 THEN Shr(13, 8 - n) % 2
        ELSE LET i == (n - 9) \div 9
                 k == (n - 9) % 9
             IN 1 - (IF k < 8 THEN Shr(p[i], 7 - k) % 2 ELSE parity8(p[i]))]

\* the wire bits with the bits at the positions in S flipped
Flip(w, S) == [n \in DOMAIN w |-> IF n \in S THEN 1 - w[n] ELSE w[n]]

\* a captured row: the first `missing` bits lost, nbits bits counted, the
\* rest of the row storage zero
Capture(w, missing, nbits) ==
    LET wbit(j) == IF j < nbits /\ j + missing <= 89 THEN w[j + missing] ELSE 0
    IN [b |-> [c \in 0..(RowBytes - 1) |->
                 wbit(8 * c) * 128 + wbit(8 * c + 1) * 64 + wbit(8 * c + 2) * 32
                 + wbit(8 * c + 3) * 16 + wbit(8 * c + 4) * 8 + wbit(8 * c + 5) * 4
                 + wbit(8 * c + 6) * 2 + wbit(8 * c + 7)],
        n |-> nbits]

\* a row captured with the opposite polarity
Inverse(r) == [b |-> InvertRow(r.b, r.n), n |-> r.n]

\* channel 3, id 5, length 7, thermo type 0x1E, +23.4 C, battery ok
FrameA == <<101, 14, 30, 52, 194, 69, 0>>
\* channel raw 5, id 9, length 7, type 0x0C, -10.5 C, battery low
FrameB == <<169, 14, 12, 5, 1, 0, 0>>
\* declared length 6 instead of 7
FrameLen6 == <<101, 12, 30, 52, 194, 69, 0>>
\* first payload byte 0
FrameZero == <<0, 14, 30, 52, 194, 69, 0>>

WireA == Wire(Payload(FrameA, 0, 0))

\* the rows the multi-row bitbuffers are built from
RowSet ==
    { Capture(WireA, m, 90 - m) : m \in 0..4 }
    \cup { Capture(WireA, 0, n) : n \in {0, 85, 86, 94, 95} }
    \cup { Capture(Flip(WireA, {k}), 0, 90) : k \in {9, 17, 38} }
    \cup { Capture(Flip(WireA, {17}), 2, 88) }
    \cup { Capture(Wire(Payload(FrameA, 1, 0)), 0, 90),
           Capture(Wire(Payload(FrameA, 0, 1)), 1, 89),
           Capture(Wire(Payload(FrameLen6, 0, 0)), 0, 90),
           Capture(Wire(Payload(FrameB, 0, 0)), 3, 87),
           Capture(Flip(Wire(Payload(FrameZero, 0, 0)), {17}), 0, 90) }
    \cup { Inverse(Capture(Wire(Payload(FrameB, 0, 0)), 0, 90)),
           Inverse(Capture(Flip(WireA, {38}), 1, 89)) }

\* single rows with every value of the first payload byte
WideRowSet ==
    { Capture(Wire(Payload(<<b0, 14, 30, 52, t, 69, 0>>, 0, 0)), 0, 90) :
        b0 \in 0..255, t \in {194} }

\* the bitbuffers offered to a call
Buffers ==
    UNION { [1..n -> RowSet] : n \in 0..MaxRows }
    \cup { <<r>> : r \in WideRowSet }

\* contents the uninitialized packet array may hold (line 67)
Garbage ==
    { [i \in 0..(RST_MAX_BYTES_PER_ROW - 1) |-> 0],
      [i \in 0..(RST_MAX_BYTES_PER_ROW - 1) |->
          IF i < 9 THEN Payload(FrameA, 0, 0)[i] ELSE 0] }

\* the 9-bit window of a row holds the sync, whole or short of up to 3
\* leading bits
SyncMatches(b) ==
    \E i \in 0..3 : (2 * b[0] + (b[1] \div 128)) \div (2 ^ i) = 13

(***************************************************************************)
(* State of one call of rst_decode.                                        *)
(***************************************************************************)
VARIABLES
    bb,             \* bitbuffer->bb: row -> bytes
    bits_per_row,   \* bitbuffer->bits_per_row
    num_rows,       \* bitbuffer->num_rows
    pc,             \* position in rst_decode
    row,            \* loop variable
    ret,            \* int ret
    sensortype,     \* locals of the loop body
    unstuffed_len,
    startpos,
    packet,
    unstuff_error,
    output,         \* records handed to decoder_output_data
    retval,         \* value returned (when pc = "done")
    orig,           \* history: bb as supplied by the host
    log,            \* history: the failures classified, in order
    attempts,       \* history: row -> times the loop body was entered
    syncs,          \* history: rows whose sync window matched when reached
    lastread        \* history: row, last bit read and last packet index
                    \* written by the latest run of the unstuff loop

vars == <<bb, bits_per_row, num_rows, pc, row, ret, sensortype, unstuffed_len,
          startpos, packet, unstuff_error, output, retval, orig, log,
          attempts, syncs, lastread>>

hist == <<orig, log, attempts, syncs, lastread>>

ZeroPacket == [i \in 0..(RST_MAX_BYTES_PER_ROW - 1) |-> 0]

Init ==
    \E buf \in Buffers :
        /\ num_rows = Len(buf)
        /\ bb = [r \in 0..(Len(buf) - 1) |-> buf[r + 1].b]
        /\ bits_per_row = [r \in 0..(Len(buf) - 1) |-> buf[r + 1].n]
        /\ orig = [r \in 0..(Len(buf) - 1) |-> buf[r + 1].b]
        /\ attempts = [r \in 0..(Len(buf) - 1) |-> 0]
        /\ pc = "row"
        /\ row = 0
        /\ ret = 0
        /\ sensortype = RST_UNKNOWN
        /\ unstuffed_len = 0
        /\ startpos = -1
        /\ packet = ZeroPacket
        /\ unstuff_error = 0
        /\ output = <<>>
        /\ retval = 0
        /\ log = <<>>
        /\ syncs = <<>>
        /\ lastread = [row |-> -1, maxbit |-> -1, maxidx |-> -1]

\* `continue`: the next iteration; the loop body's locals go out of scope
Continue(code, kind) ==
    /\ ret' = SetRet(ret, code)
    /\ log' = Append(log, [row |-> row, kind |-> kind, code |-> code])
    /\ row' = row + 1
    /\ pc' = "row"
    /\ sensortype' = RST_UNKNOWN
    /\ unstuffed_len' = 0
    /\ startpos' = -1
    /\ packet' = ZeroPacket
    /\ unstuff_error' = 0

\* line 36 (loop ends) and line 146
LoopExit ==
    /\ pc = "row"
    /\ row >= num_rows
    /\ pc' = "done"
    /\ retval' = ret
    /\ UNCHANGED <<bb, bits_per_row, num_rows, row, ret, sensortype,
                   unstuffed_len, startpos, packet, unstuff_error, output,
                   hist>>

\* lines 36-46
LengthCheck ==
    /\ pc = "row"
    /\ row < num_rows
    /\ attempts' = [attempts EXCEPT ![row] = @ + 1]
    /\ IF UnstuffedLen(bits_per_row[row]) = 10
       THEN /\ sensortype' = SensorTypeFor(UnstuffedLen(bits_per_row[row]))
            /\ unstuffed_len' = UnstuffedLen(bits_per_row[row]) - 1
            /\ pc' = "sync"
            /\ UNCHANGED <<row, ret, startpos, packet, unstuff_error, log>>
       ELSE Continue(DECODE_ABORT_LENGTH, "LengthMismatch")
    /\ UNCHANGED <<bb, bits_per_row, num_rows, output, retval, orig, syncs,
                   lastread>>

\* lines 48-65
SyncLocate ==
    /\ pc = "sync"
    /\ LET sp == SyncLoop(SyncWindow(bb[row]), 0)
       IN IF sp < 0
          THEN /\ Continue(DECODE_ABORT_EARLY, "SyncNotFound")
               /\ UNCHANGED bb
          ELSE /\ startpos' = sp
               /\ bb' = bitbuffer_invert(bb, bits_per_row)
               /\ pc' = "unstuff"
               /\ UNCHANGED <<row, ret, sensortype, unstuffed_len, packet,
                              unstuff_error, log>>
    /\ syncs' = IF SyncMatches(bb[row]) THEN Append(syncs, row) ELSE syncs
    /\ UNCHANGED <<bits_per_row, num_rows, output, retval, orig, attempts,
                   lastread>>

\* lines 67-85
Unstuff ==
    /\ pc = "unstuff"
    /\ \E g \in Garbage :
         LET st == UnstuffLoop(bb[row], startpos, unstuffed_len, 0,
                               [packet |-> g, ret |-> ret, unstuff_error |-> 0,
                                maxbit |-> -1, maxidx |-> -1,
                                perr |-> FALSE, at |-> -1])
             log1 == IF st.perr
                     THEN Append(log, [row |-> row, kind |-> "ParityError",
                                       code |-> DECODE_FAIL_MIC])
                     ELSE log
         IN /\ lastread' = [row |-> row, maxbit |-> st.maxbit,
                             maxidx |-> st.maxidx]
            /\ IF st.unstuff_error # 0
               THEN /\ Continue(DECODE_FAIL_MIC, "ParityError")
               ELSE /\ packet' = st.packet
                    /\ ret' = st.ret
                    /\ unstuff_error' = st.unstuff_error
                    /\ log' = log1
                    /\ pc' = "xor"
                    /\ UNCHANGED <<row, sensortype, unstuffed_len, startpos>>
    /\ UNCHANGED <<bb, bits_per_row, num_rows, output, retval, orig, attempts,
                   syncs>>

\* lines 87-93
XorCheck ==
    /\ pc = "xor"
    /\ IF xor_bytes(packet, unstuffed_len - 1) # 0
       THEN Continue(DECODE_FAIL_MIC, "XorChecksumError")
       ELSE /\ pc' = "crc"
            /\ UNCHANGED <<row, ret, sensortype, unstuffed_len, startpos,
                           packet, unstuff_error, log>>
    /\ UNCHANGED <<bb, bits_per_row, num_rows, output, retval, orig, attempts,
                   syncs, lastread>>

\* lines 95-100
CrcCheck ==
    /\ pc = "crc"
    /\ IF crc8(packet, unstuffed_len, 7, 0) # 0
       THEN Continue(DECODE_FAIL_MIC, "CrcError")
       ELSE /\ pc' = "len"
            /\ UNCHANGED <<row, ret, sensortype, unstuffed_len, startpos,
                           packet, unstuff_error, log>>
    /\ UNCHANGED <<bb, bits_per_row, num_rows, output, retval, orig, attempts,
                   syncs, lastread>>

\* lines 102-117
LenCheck ==
    /\ pc = "len"
    /\ LET reflected == reflect_bytes(packet, unstuffed_len)
       IN IF PktLen(reflected) + 2 # unstuffed_len
          THEN Continue(DECODE_ABORT_LENGTH, "PacketLengthMismatch")
          ELSE /\ packet' = reflected
               /\ pc' = "fields"
               /\ UNCHANGED <<row, ret, sensortype, unstuffed_len, startpos,
                              unstuff_error, log>>
    /\ UNCHANGED <<bb, bits_per_row, num_rows, output, retval, orig, attempts,
                   syncs, lastread>>

\* lines 119-144
Fields ==
    /\ pc = "fields"
    /\ IF sensortype = RST_TEMP
       THEN /\ output' = Append(output, [row |-> row, data |-> DataMake(packet)])
            /\ retval' = 1
       ELSE /\ output' = output
            /\ retval' = DECODE_FAIL_SANITY
    /\ pc' = "done"
    /\ UNCHANGED <<bb, bits_per_row, num_rows, row, ret, sensortype,
                   unstuffed_len, startpos, packet, unstuff_error, hist>>

Next ==
    \/ LoopExit
    \/ LengthCheck
    \/ SyncLocate
    \/ Unstuff
    \/ XorCheck
    \/ CrcCheck
    \/ LenCheck
    \/ Fields

Spec == Init /\ [][Next]_vars

(***************************************************************************)
(* Bit-level reading of a row, for the properties.                         *)
(***************************************************************************)
\* bit k of a row, bit 0 the first bit received
BitAt(b, k) == (b[k \div 8] \div (2 ^ (7 - (k % 8)))) % 2

\* the value of the n bits from bit `from` on, first bit most significant
RECURSIVE BitsValue(_, _, _)
BitsValue(b, from, n) ==
    IF n = 0 THEN 0
    ELSE 2 * BitsValue(b, from, n - 1) + BitAt(b, from + n - 1)

\* payload byte i of an inverted row whose payload starts at bit s
DataByte(b, s, i) == BitsValue(b, s + 9 * i, 8)

\* the 8 data bits and the parity bit of payload byte i hold an even
\* number of ones
ParityHolds(b, s, i) ==
    Cardinality({k \in 0..8 : BitAt(b, s + 9 * i + k) = 1}) % 2 = 0

\* every bit column of payload bytes 0..7 holds an even number of ones
XorHolds(b, s) ==
    \A k \in 0..7 :
        Cardinality({i \in 0..7 : BitAt(b, s + 9 * i + k) = 1}) % 2 = 0

CrcHolds(b, s) == crc8([i \in 0..8 |-> DataByte(b, s, i)], 9, 7, 0) = 0

\* bits 1..5 of the reflected payload byte 1
DeclaredLength(b, s) ==
    BitAt(b, s + 10) + 2 * BitAt(b, s + 11) + 4 * BitAt(b, s + 12)
    + 8 * BitAt(b, s + 13) + 16 * BitAt(b, s + 14)

\* the reflected (LSB first) payload byte i
ReflectedByte(b, s, i) ==
    BitAt(b, s + 9 * i) + 2 * BitAt(b, s + 9 * i + 1)
    + 4 * BitAt(b, s + 9 * i + 2) + 8 * BitAt(b, s + 9 * i + 3)
    + 16 * BitAt(b, s + 9 * i + 4) + 32 * BitAt(b, s + 9 * i + 5)
    + 64 * BitAt(b, s + 9 * i + 6) + 128 * BitAt(b, s + 9 * i + 7)

\* row r, held inverted in bb, with its payload at bit s, passes every
\* validation stage
RowValidates(r, s) ==
    /\ (bits_per_row[r] + 4) \div 9 = 10
    /\ s \in 6..9
    /\ (2 ^ s) - 1 - BitsValue(bb[r], 0, s) = 13
    /\ \A i \in 0..8 : ParityHolds(bb[r], s, i)
    /\ XorHolds(bb[r], s)
    /\ CrcHolds(bb[r], s)
    /\ DeclaredLength(bb[r], s) + 2 = 9

\* the rows whose evaluation has ended
Evaluated == {r \in 0..(num_rows - 1) : r < row \/ (pc = "done" /\ r = row)}

\* the last classification logged for row r
LastLog(r) ==
    LET ks == {k \in DOMAIN log : log[k].row = r}
    IN log[CHOOSE k \in ks : \A j \in ks : j <= k]

Emitted(r) == \E k \in DOMAIN output : output[k].row = r

(***************************************************************************)
(* C1.  Fail closed: a record is emitted for a row only if the row passed  *)
(* every validation stage (unstuffed length 10, sync found, the parity of  *)
(* all 9 payload bytes, XOR of bytes 0..7 zero, CRC-8 over bytes 0..8      *)
(* zero, declared length + 2 = 9).                                         *)
(***************************************************************************)
C1_FailClosed ==
    \A k \in DOMAIN output : RowValidates(output[k].row, startpos)

(***************************************************************************)
(* C2.  Parity error handling: a row with a parity mismatch in any payload *)
(* byte 0..8 (byte 0 included) goes straight to the next row; the XOR      *)
(* check, the CRC check, the reflection, the declared-length check and the *)
(* field decode are not executed for it.                                   *)
(***************************************************************************)
C2_ParityErrorEndsRow ==
    pc \in {"xor", "crc", "len", "fields"} =>
        \A i \in 0..8 : ParityHolds(bb[row], startpos, i)

(***************************************************************************)
(* C3.  Row independence: the outcome of a row evaluated in a call (the    *)
(* record it yields or its classification) is an outcome the same row has  *)
(* when it is offered alone as row 0 of a one-row bitbuffer.               *)
(***************************************************************************)
\* the outcome of rst_decode on the one-row bitbuffer <<b>> of n bits, the
\* packet array holding g at line 67
AloneOutcome(b, n, g) ==
    IF UnstuffedLen(n) # 10 THEN [kind |-> "LengthMismatch", packet |-> g]
    ELSE IF SyncLoop(SyncWindow(b), 0) < 0
    THEN [kind |-> "SyncNotFound", packet |-> g]
    ELSE LET st == UnstuffLoop(InvertRow(b, n), SyncLoop(SyncWindow(b), 0), 9, 0,
                               [packet |-> g, ret |-> 0, unstuff_error |-> 0,
                                maxbit |-> -1, maxidx |-> -1,
                                perr |-> FALSE, at |-> -1])
         IN IF st.unstuff_error # 0
            THEN [kind |-> "ParityError", packet |-> g]
            ELSE IF xor_bytes(st.packet, 8) # 0
            THEN [kind |-> "XorChecksumError", packet |-> g]
            ELSE IF crc8(st.packet, 9, 7, 0) # 0
            THEN [kind |-> "CrcError", packet |-> g]
            ELSE IF PktLen(reflect_bytes(st.packet, 9)) + 2 # 9
            THEN [kind |-> "PacketLengthMismatch", packet |-> g]
            ELSE [kind |-> "Record", packet |-> reflect_bytes(st.packet, 9)]

\* row r ended in the call as `alone` says
SameOutcome(r, alone) ==
    IF Emitted(r)
    THEN /\ alone.kind = "Record"
         /\ \E k \in DOMAIN output :
               output[k].row = r /\ output[k].data = DataMake(alone.packet)
    ELSE alone.kind = LastLog(r).kind

C3_RowIndependent ==
    \A r \in Evaluated :
        \E g \in Garbage :
            SameOutcome(r, AloneOutcome(orig[r], bits_per_row[r], g))

(***************************************************************************)
(* C4.  First success wins: rows are examined in increasing order; the     *)
(* first row that passes all validation emits exactly one record and the   *)
(* call returns 1 at once; no higher row is examined afterwards; a call    *)
(* emits at most one record, and it comes from the lowest-indexed row that *)
(* fully validates.                                                        *)
(***************************************************************************)
C4_FirstSuccessWins ==
    /\ Len(output) <= 1
    /\ \A r \in 0..(num_rows - 1) :
          attempts[r] = (IF r < row \/ (r = row /\ pc # "row") THEN 1 ELSE 0)
    /\ output # <<>> =>
          /\ pc = "done"
          /\ retval = 1
          /\ output[1].row = row
          /\ RowValidates(row, startpos)
          /\ \A r \in 0..(row - 1) : ~Emitted(r) /\ LastLog(r).row = r

(***************************************************************************)
(* C5.  Failure propagation: a per-row failure never stops the scan; when  *)
(* no row succeeds every row is attempted exactly once and the call        *)
(* returns the classification code assigned to the last row attempted.     *)
(***************************************************************************)
C5_LastFailureReturned ==
    (pc = "done" /\ output = <<>>) =>
        /\ row = num_rows
        /\ \A r \in 0..(num_rows - 1) : attempts[r] = 1
        /\ \A r \in 0..(num_rows - 1) : \E k \in DOMAIN log : log[k].row = r
        /\ \A j, k \in DOMAIN log : j <= k => log[j].row <= log[k].row
        /\ num_rows > 0 => retval = LastLog(num_rows - 1).code
        /\ num_rows = 0 => retval = 0

\* every row failed and the code returned is not the first row's
C5_Witness ==
    /\ pc = "done"
    /\ output = <<>>
    /\ num_rows >= 2
    /\ retval # LastLog(0).code
    /\ retval = LastLog(num_rows - 1).code

(***************************************************************************)
(* C6.  Unknown subtype.  As claimed: a row that passes every check but    *)
(* whose subtype bits (byte[2] & 0x1F) are not those of the thermo sensor  *)
(* (0x1E) ends the call with DECODE_FAIL_SANITY and no record.             *)
(***************************************************************************)
\* the call returned from the field decoder (lines 119-144)
ReturnedFromFields == pc = "done" /\ row < num_rows

Window(b) == 2 * b[0] + (b[1] \div 128)

Shifts(b) == {i \in 0..3 : Window(b) \div (2 ^ i) = 13}

C7_SyncLocator ==
    [][pc = "sync" =>
         IF Shifts(bb[row]) # {}
         THEN /\ Cardinality(Shifts(bb[row])) = 1
              /\ \A i \in Shifts(bb[row]) : startpos' = 9 - i
              /\ startpos' \in 6..9
              /\ pc' = "unstuff"
              /\ row' = row
              /\ log' = log
         ELSE /\ pc' = "row"
              /\ row' = row + 1
              /\ ret' = DECODE_ABORT_EARLY
              /\ log' = Append(log, [row |-> row, kind |-> "SyncNotFound",
                                     code |-> DECODE_ABORT_EARLY])
              /\ bb' = bb
              /\ lastread' = lastread
              /\ output' = output]_vars

\* a row whose sync lacks 3 leading bits was located, and a row before it
\* was classified SyncNotFound
C7_Witness ==
    /\ pc = "unstuff"
    /\ startpos = 6
    /\ \E k \in DOMAIN log : log[k].kind = "SyncNotFound"

(***************************************************************************)
(* C8.  Channel remap: with byte[0] the reflected first payload byte of    *)
(* the accepted row and raw = (byte[0] >> 5) & 0x0F, the emitted channel   *)
(* is raw if raw < 5 and raw - 1 if raw >= 5 (5 -> 4, 4 -> 4), and the     *)
(* emitted id is byte[0] & 0x0F, in 0..15.                                 *)
(***************************************************************************)
C8_ChannelRemap ==
    \A k \in DOMAIN output :
        LET byte0 == ReflectedByte(bb[output[k].row], startpos, 0)
            raw == (byte0 \div 32) % 16
        IN /\ output[k].data.channel = (IF raw < 5 THEN raw ELSE raw - 1)
           /\ raw = 5 => output[k].data.channel = 4
           /\ raw = 4 => output[k].data.channel = 4
           /\ output[k].data.id = byte0 % 16
           /\ output[k].data.id \in 0..15

\* a record whose raw channel is 5
C8_Witness ==
    \E k \in DOMAIN output :
        /\ (ReflectedByte(bb[output[k].row], startpos, 0) \div 32) % 16 = 5
        /\ output[k].data.channel = 4

(***************************************************************************)
(* C9.  Frame effect of the inversion: the buffer changes only by the      *)
(* inversion of the whole buffer, once for each row that passes the length *)
(* and the sync check.  If no row passes both, no bit changes; after a     *)
(* call the buffer is as supplied iff an even number of rows passed sync,  *)
(* and else it is the bitwise inverse (of the bits_per_row bits of every   *)
(* row).                                                                   *)
(***************************************************************************)
C9_InversionFrame ==
    /\ \A r \in 0..(num_rows - 1) :
          \A k \in 0..(8 * RowBytes - 1) :
              BitAt(bb[r], k) =
                  IF k < bits_per_row[r] /\ Len(syncs) % 2 = 1
                  THEN 1 - BitAt(orig[r], k)
                  ELSE BitAt(orig[r], k)
    /\ syncs = <<>> => bb = orig
    /\ pc = "done" => (bb = orig <=> Len(syncs) % 2 = 0)
    /\ \A j \in DOMAIN syncs : (bits_per_row[syncs[j]] + 4) \div 9 = 10

\* a call in which two rows passed sync has ended: the buffer is restored
C9_Witness ==
    /\ pc = "done"
    /\ Len(syncs) = 2
    /\ bb = orig

(***************************************************************************)
(* C10.  Read bounds of the de-stuffer: every bit the unstuff loop reads,  *)
(* bit s + 9*i + k of a row that passed the length and the sync check, is  *)
(* below the row's bit count, and every packet index written is below      *)
(* RST_MAX_BYTES_PER_ROW.                                                  *)
(***************************************************************************)
C10_ReadsWithinRow ==
    lastread.row >= 0 =>
        /\ lastread.maxbit < bits_per_row[lastread.row]
        /\ lastread.maxidx < RST_MAX_BYTES_PER_ROW

(***************************************************************************)
(* What holds of the code next to C1, C4 and C10.                          *)
(***************************************************************************)
NoParityErrorLogged(r) ==
    \A k \in DOMAIN log : ~(log[k].row = r /\ log[k].kind = "ParityError")

\* a record from a row for which no parity error was met comes from a row
\* that passes every validation stage
FailClosedApartFromByte0 ==
    \A k \in DOMAIN output :
        NoParityErrorLogged(output[k].row) =>
            RowValidates(output[k].row, startpos)

\* at most one record; the call returns 1 at once; rows are entered once,
\* in increasing order, none after the emitting row
FirstSuccessOrder ==
    /\ Len(output) <= 1
    /\ \A r \in 0..(num_rows - 1) :
          attempts[r] = (IF r < row \/ (r = row /\ pc # "row") THEN 1 ELSE 0)
    /\ output # <<>> =>
          /\ pc = "done"
          /\ retval = 1
          /\ output[1].row = row
          /\ \A r \in 0..(row - 1) : ~Emitted(r) /\ LastLog(r).row = r

\* the unstuff loop reads below bit startpos + 81 <= 90 and writes
\* packet[0..8]
ReadsWithinFullFrame ==
    lastread.row >= 0 =>
        /\ lastread.maxbit <= 89
        /\ lastread.maxidx <= 8
        /\ (lastread.row = row /\ pc \in {"xor", "crc", "len", "fields", "done"}) =>
              lastread.maxbit < startpos + 81

====
